---- MODULE Spec2Model ----
(***************************************************************************)
(* FluentBundle of fluent-bundle/src/bundle.rs: the registry of messages,  *)
(* terms and functions of one locale (`entries`), its loading operations   *)
(* (add_resource, add_function), its query (has_message) and its two       *)
(* formatting operations (format, compound).                               *)
(*                                                                         *)
(* Strings are TLA+ strings; a path handed to format is a sequence of      *)
(* one-character strings, so that `path.find('.')` and the two slices are  *)
(* computed as the code computes them.                                     *)
(***************************************************************************)
EXTENDS Integers, Sequences, FiniteSets, TLC

VARIABLES entries, last, calls

vars == <<entries, last, calls>>

(***************************************************************************)
(* Bounds of the model.                                                    *)
(***************************************************************************)
\* entries of one resource handed to add_resource
MaxResLen == 2
\* '.'-separated segments of a path handed to format
MaxPathSegs == 3
\* resolution frames a call may stack before the thread's stack is exhausted
MaxDepth == 6

(***************************************************************************)
(* Strings and characters.                                                 *)
(***************************************************************************)
RECURSIVE ToStr(_)
\* &path[a..b] as a string: the characters of a slice, concatenated
ToStr(cs) == IF cs = <<>> THEN "" ELSE Head(cs) \o ToStr(Tail(cs))

\* the characters of the identifiers the inputs are built from
Chars == [s \in {"foo", "bar", "title", "tip", "FN", ""} |->
            CASE s = "foo" -> <<"f", "o", "o">>
              [] s = "bar" -> <<"b", "a", "r">>
              [] s = "title" -> <<"t", "i", "t", "l", "e">>
              [] s = "tip" -> <<"t", "i", "p">>
              [] s = "FN" -> <<"F", "N">>
              [] s = "" -> <<>>]

(***************************************************************************)
(* The content tree (fluent_syntax::ast), consumed read-only.              *)
(***************************************************************************)
TextElement(s) == [type |-> "Text", id |-> "", value |-> s]
VariableReference(n) == [type |-> "Var", id |-> n, value |-> ""]
MessageReference(x) == [type |-> "MsgRef", id |-> x, value |-> ""]
TermReference(x) == [type |-> "TermRef", id |-> x, value |-> ""]
FunctionReference(f) == [type |-> "Call", id |-> f, value |-> ""]

NoPattern == [some |-> FALSE, pat |-> <<>>]
SomePattern(p) == [some |-> TRUE, pat |-> p]

Attribute(n, p) == [id |-> n, value |-> p]

AstMessage(i, v, as) == [kind |-> "message", id |-> i, value |-> v, attributes |-> as]
AstTerm(i, v, as) == [kind |-> "term", id |-> i, value |-> v, attributes |-> as]
\* a comment or junk entry of a resource body
AstOther == [kind |-> "other", id |-> "", value |-> NoPattern, attributes |-> <<>>]

(***************************************************************************)
(* Registered callables.  A callable is known by what it returns.          *)
(***************************************************************************)
Functions == {"F1", "F2"}

\* the FluentValue a registered callable returns, stringified
Invoke(f) == IF f = "F1" THEN "1" ELSE "2"

(***************************************************************************)
(* The registry: entries : HashMap<String, Entry>.                         *)
(***************************************************************************)
EntryMessage(m) == [kind |-> "message", node |-> m, func |-> ""]
EntryTerm(t) == [kind |-> "term", node |-> t, func |-> ""]
EntryFunction(f) == [kind |-> "function", node |-> AstOther, func |-> f]

\* HashMap::new()
NoEntries == [i \in {} |-> EntryFunction("F1")]

None == [some |-> FALSE]
Some(v) == [some |-> TRUE, v |-> v]

\* entries.get_message(id)
get_message(es, id) ==
    IF id \in DOMAIN es /\ es[id].kind = "message" THEN Some(es[id].node) ELSE None

\* entries.get_term(id)
get_term(es, id) ==
    IF id \in DOMAIN es /\ es[id].kind = "term" THEN Some(es[id].node) ELSE None

\* entries.get_function(id)
get_function(es, id) ==
    IF id \in DOMAIN es /\ es[id].kind = "function" THEN Some(es[id].func) ELSE None

\* FluentBundle::has_message
has_message(es, id) == get_message(es, id).some

\* FluentError::Overriding { kind, id }
Overriding(k, i) == [error |-> "Overriding", kind |-> k, id |-> i]

Ok == [ok |-> TRUE, errors |-> <<>>]
Err(e) == [ok |-> FALSE, errors |-> e]

\* add_function with HashMap::insert in place of the entry match: the new
\* callable replaces whatever is registered under the id
add_function_insert(es, id, func) ==
    [entries |-> (id :> EntryFunction(func)) @@ es, result |-> Ok]

\* FluentBundle::add_function: the registry afterwards and the Result
add_function(es, id, func) ==
    IF id \notin DOMAIN es
    THEN [entries |-> (id :> EntryFunction(func)) @@ es, result |-> Ok]
    ELSE [entries |-> es, result |-> Err(<<Overriding("function", id)>>)]

RECURSIVE add_resource_loop_return(_, _, _)
\* the loop of add_resource leaving at the first rejected entry
add_resource_loop_return(es, body, errors) ==
    IF body = <<>> THEN [entries |-> es, errors |-> errors]
    ELSE LET entry == Head(body)
         IN  IF entry.kind \notin {"message", "term"}
             THEN add_resource_loop_return(es, Tail(body), errors)
             ELSE IF entry.id \notin DOMAIN es
                  THEN add_resource_loop_return(
                           (entry.id :> IF entry.kind = "message"
                                        THEN EntryMessage(entry)
                                        ELSE EntryTerm(entry)) @@ es,
                           Tail(body), errors)
                  ELSE [entries |-> es,
                        errors |-> Append(errors, Overriding(entry.kind, entry.id))]

RECURSIVE add_resource_loop_replace(_, _, _)
\* the loop of add_resource storing the entrant over the occupant it reports
add_resource_loop_replace(es, body, errors) ==
    IF body = <<>> THEN [entries |-> es, errors |-> errors]
    ELSE LET entry == Head(body)
             stored == (entry.id :> IF entry.kind = "message"
                                    THEN EntryMessage(entry)
                                    ELSE EntryTerm(entry)) @@ es
         IN  IF entry.kind \notin {"message", "term"}
             THEN add_resource_loop_replace(es, Tail(body), errors)
             ELSE IF entry.id \notin DOMAIN es
                  THEN add_resource_loop_replace(stored, Tail(body), errors)
                  ELSE add_resource_loop_replace(stored, Tail(body),
                           Append(errors, Overriding(entry.kind, entry.id)))

RECURSIVE add_resource_loop(_, _, _)
\* the `for entry in &res.ast().body` loop of add_resource
add_resource_loop(es, body, errors) ==
    IF body = <<>> THEN [entries |-> es, errors |-> errors]
    ELSE LET entry == Head(body)
         IN  IF entry.kind \notin {"message", "term"}
             THEN add_resource_loop(es, Tail(body), errors)
             ELSE IF entry.id \notin DOMAIN es
                  THEN add_resource_loop(
                           (entry.id :> IF entry.kind = "message"
                                        THEN EntryMessage(entry)
                                        ELSE EntryTerm(entry)) @@ es,
                           Tail(body), errors)
                  ELSE add_resource_loop(es, Tail(body),
                           Append(errors, Overriding(entry.kind, entry.id)))

\* FluentBundle::add_resource: the registry afterwards and the Result
add_resource(es, res) ==
    LET r == add_resource_loop(es, res, <<>>)
    IN  [entries |-> r.entries,
         result |-> IF r.errors = <<>> THEN Ok ELSE Err(r.errors)]

(***************************************************************************)
(* The resolver (super::resolve): the Resolution Scope, the cycle guard    *)
(* and the pattern evaluator.                                              *)
(***************************************************************************)
\* Scope::new(bundle, args): no identifier is being resolved, no error yet
ScopeNew(args) == [args |-> args, travelled |-> <<>>, errors |-> <<>>]

\* DisplayableNode::new(id, attribute)
DisplayableNode(i, a) == [id |-> i, attribute |-> a]

\* ResolverError
Cyclic == [error |-> "Cyclic", id |-> ""]
Reference(i) == [error |-> "Reference", id |-> i]

\* the cycle guard never finding the identifier
OnStack_never(x, travelled) == FALSE

\* the cycle guard: x is being resolved
OnStack(x, travelled) == \E k \in 1..Len(travelled) : travelled[k] = x

\* the value of a cyclic reference taken from the reference itself
cycle_value_self(scope, x) == x

\* the value substituted for a cyclic reference to x: the identifier of the
\* message the call was made for
cycle_value(scope, x) == Head(scope.travelled)

Fallback(text, err, scope) ==
    [val |-> text, scope |-> [scope EXCEPT !.errors = Append(@, err)]]

\* the pattern a message or term reference leads to, None when there is none
reference_target(es, e) ==
    CASE e.type = "MsgRef" ->
            LET m == get_message(es, e.id)
            IN  IF m.some /\ m.v.value.some THEN Some(m.v.value.pat) ELSE None
      [] e.type = "TermRef" ->
            LET t == get_term(es, e.id)
            IN  IF t.some /\ t.v.value.some THEN Some(t.v.value.pat) ELSE None
      [] OTHER -> None

\* an element that is resolved without entering another pattern
resolve_leaf(es, e, scope) ==
    CASE e.type = "Text" -> [val |-> e.value, scope |-> scope]
      [] e.type = "Var" ->
            IF e.id \in DOMAIN scope.args
            THEN [val |-> scope.args[e.id], scope |-> scope]
            ELSE Fallback(e.id, Reference(e.id), scope)
      [] e.type = "MsgRef" -> Fallback(e.id, Reference(e.id), scope)
      [] e.type = "TermRef" -> Fallback("-" \o e.id, Reference("-" \o e.id), scope)
      [] e.type = "Call" ->
            LET f == get_function(es, e.id)
            IN  IF f.some
                THEN [val |-> Invoke(f.v), scope |-> scope]
                ELSE Fallback("", Reference(e.id \o "()"), scope)

RECURSIVE resolve_value_for_entry(_, _, _, _)
RECURSIVE resolve_elements(_, _, _)

\* one placeable or text element of a pattern
resolve_expression(es, e, scope) ==
    LET t == reference_target(es, e)
    IN  IF t.some
        THEN resolve_value_for_entry(es, t.v, DisplayableNode(e.id, None), scope)
        ELSE resolve_leaf(es, e, scope)

\* the elements of a pattern, left to right, concatenated
resolve_elements(es, elems, scope) ==
    IF elems = <<>> THEN [val |-> "", scope |-> scope]
    ELSE LET h == resolve_expression(es, Head(elems), scope)
             t == resolve_elements(es, Tail(elems), h.scope)
         IN  [val |-> h.val \o t.val, scope |-> t.scope]

\* resolve_value_for_entry(value, entry, scope), behind the cycle guard
resolve_value_for_entry(es, value, entry, scope) ==
    IF OnStack(entry.id, scope.travelled)
    THEN Fallback(cycle_value(scope, entry.id), Cyclic, scope)
    ELSE LET r == resolve_elements(es, value,
                      [scope EXCEPT !.travelled = Append(@, entry.id)])
         IN  [val |-> r.val,
              scope |-> [r.scope EXCEPT !.travelled = scope.travelled]]

(***************************************************************************)
(* format and compound.                                                    *)
(***************************************************************************)
\* str::find: the 1-based position of the first occurrence, 0 for None
Find(path, ch) ==
    IF \E k \in 1..Len(path) : path[k] = ch
    THEN CHOOSE k \in 1..Len(path) :
            path[k] = ch /\ \A j \in 1..(k - 1) : path[j] # ch
    ELSE 0

\* attributes.iter().find(|attr| attr.id.name == attr_name): position, 0 for None
FindAttr(attributes, attr_name) ==
    IF \E k \in 1..Len(attributes) : attributes[k].id = attr_name
    THEN CHOOSE k \in 1..Len(attributes) :
            attributes[k].id = attr_name
            /\ \A j \in 1..(k - 1) : attributes[j].id # attr_name
    ELSE 0

NoResult == [some |-> FALSE, str |-> "", errors |-> <<>>]
SomeResult(s, errs) == [some |-> TRUE, str |-> s, errors |-> errs]

NoTarget == [some |-> FALSE, value |-> <<>>, node |-> DisplayableNode("", None)]

\* the lookups of format with a message that has no value formatted as the
\* empty pattern
format_entry_default(es, path) ==
    LET ptr_pos == Find(path, ".")
    IN  IF ptr_pos # 0
        THEN LET message_id == ToStr(SubSeq(path, 1, ptr_pos - 1))
                 message == get_message(es, message_id)
                 attr_name == ToStr(SubSeq(path, ptr_pos + 1, Len(path)))
             IN  IF ~message.some THEN NoTarget
                 ELSE LET attr == FindAttr(message.v.attributes, attr_name)
                      IN  IF attr = 0 THEN NoTarget
                          ELSE LET a == message.v.attributes[attr]
                               IN  [some |-> TRUE, value |-> a.value,
                                    node |-> DisplayableNode(message.v.id, Some(a.id))]
        ELSE LET message_id == ToStr(path)
                 message == get_message(es, message_id)
             IN  IF ~message.some THEN NoTarget
                 ELSE [some |-> TRUE, value |-> message.v.value.pat,
                       node |-> DisplayableNode(message.v.id, None)]

\* the pattern and the node format resolves: the lookups of format
format_entry(es, path) ==
    LET ptr_pos == Find(path, ".")
    IN  IF ptr_pos # 0
        THEN LET message_id == ToStr(SubSeq(path, 1, ptr_pos - 1))
                 message == get_message(es, message_id)
                 attr_name == ToStr(SubSeq(path, ptr_pos + 1, Len(path)))
             IN  IF ~message.some THEN NoTarget
                 ELSE LET attr == FindAttr(message.v.attributes, attr_name)
                      IN  IF attr = 0 THEN NoTarget
                          ELSE LET a == message.v.attributes[attr]
                               IN  [some |-> TRUE, value |-> a.value,
                                    node |-> DisplayableNode(message.v.id, Some(a.id))]
        ELSE LET message_id == ToStr(path)
                 message == get_message(es, message_id)
             IN  IF ~message.some THEN NoTarget
                 ELSE IF ~message.v.value.some THEN NoTarget
                 ELSE [some |-> TRUE, value |-> message.v.value.pat,
                       node |-> DisplayableNode(message.v.id, None)]

\* FluentBundle::format
format(es, path, args) ==
    LET env == ScopeNew(args)
        t == format_entry(es, path)
    IN  IF ~t.some THEN NoResult
        ELSE LET r == resolve_value_for_entry(es, t.value, t.node, env)
             IN  SomeResult(r.val, r.scope.errors)

NoAttributes == [n \in {} |-> ""]

RECURSIVE compound_attributes(_, _, _, _, _)
\* the `for attr in message.attributes.iter()` loop of compound
compound_attributes(es, message, k, attributes, env) ==
    IF k > Len(message.attributes) THEN [attributes |-> attributes, env |-> env]
    ELSE LET attr == message.attributes[k]
             val == resolve_value_for_entry(es, attr.value,
                        DisplayableNode(message.id, Some(attr.id)), env)
         IN  compound_attributes(es, message, k + 1,
                 (attr.id :> val.val) @@ attributes, val.scope)

NoMessage == [some |-> FALSE, value |-> None, attributes |-> NoAttributes, errors |-> <<>>]

\* FluentBundle::compound
compound(es, message_id, args) ==
    LET env == ScopeNew(args)
        message == get_message(es, message_id)
    IN  IF ~message.some THEN NoMessage
        ELSE LET v == IF message.v.value.some
                      THEN resolve_value_for_entry(es, message.v.value.pat,
                               DisplayableNode(message.v.id, None), env)
                      ELSE [val |-> "", scope |-> env]
                 as == compound_attributes(es, message.v, 1, NoAttributes, v.scope)
             IN  [some |-> TRUE,
                  value |-> IF message.v.value.some THEN Some(v.val) ELSE None,
                  attributes |-> as.attributes,
                  errors |-> as.env.errors]

(***************************************************************************)
(* Inputs: content trees, paths, arguments.                                *)
(***************************************************************************)
\* foo = a { foo } b
FooCyclic ==
    AstMessage("foo",
        SomePattern(<<TextElement("a "), MessageReference("foo"), TextElement(" b")>>),
        <<>>)

\* foo = Hi { $name }
\*     .title = { bar }
\*     .tip = T{ FN() }
FooAttrs ==
    AstMessage("foo",
        SomePattern(<<TextElement("Hi "), VariableReference("name")>>),
        <<Attribute("title", <<MessageReference("bar")>>),
          Attribute("tip", <<TextElement("T"), FunctionReference("FN")>>)>>)

\* foo =
\*     .title = X
\*     .title = { $name }
FooTwice ==
    AstMessage("foo", NoPattern,
        <<Attribute("title", <<TextElement("X")>>),
          Attribute("title", <<VariableReference("name")>>)>>)

\* foo = { bar }{ -bar }
FooBar ==
    AstMessage("foo",
        SomePattern(<<MessageReference("bar"), TermReference("bar")>>), <<>>)

\* bar = B
BarText == AstMessage("bar", SomePattern(<<TextElement("B")>>), <<>>)

\* bar = x { foo } y
BarFoo ==
    AstMessage("bar",
        SomePattern(<<TextElement("x "), MessageReference("foo"), TextElement(" y")>>),
        <<>>)

\* -bar = brand{ -bar }
TermBar ==
    AstTerm("bar", SomePattern(<<TextElement("brand"), TermReference("bar")>>), <<>>)

AstEntries == {FooCyclic, FooAttrs, FooTwice, FooBar, BarText, BarFoo, TermBar, AstOther}

RECURSIVE SeqsUpTo(_, _)
\* the sequences of at most n elements of S
SeqsUpTo(S, n) ==
    IF n = 0 THEN {<<>>}
    ELSE LET shorter == SeqsUpTo(S, n - 1)
         IN  shorter \cup {Append(q, x) : q \in shorter, x \in S}

\* the bodies of the resources the bundles of the callers are loaded from
Resources == SeqsUpTo(AstEntries, MaxResLen)

\* the bodies of the resources handed to add_resource one after another
LoadResources == SeqsUpTo({FooAttrs, FooBar, BarText, TermBar, AstOther}, MaxResLen)

MessageIds == {"foo", "bar", "FN"}
FunctionIds == {"FN", "bar"}

Segments == {"foo", "bar", "title", "tip", ""}

RECURSIVE Join(_)
\* the characters of the segments, separated by '.'
Join(segs) ==
    IF Len(segs) = 1 THEN Chars[segs[1]]
    ELSE Chars[Head(segs)] \o <<".">> \o Join(Tail(segs))

\* the paths handed to format
Paths == {Join(segs) : segs \in SeqsUpTo(Segments, MaxPathSegs) \ {<<>>}}

\* the paths of callers that run between loads or next to each other
CallPaths == {Join(segs) : segs \in SeqsUpTo({"foo", "bar", "title"}, 2) \ {<<>>}}

NoArgs == [n \in {} |-> ""]
ArgSets == {NoArgs, "name" :> "Ann"}

(***************************************************************************)
(* The bundle as a state machine: one action per public operation, each    *)
(* recording the operation, the registry it ran on and what it returned.   *)
(***************************************************************************)
Slots == {1, 2}
Idle == [pc |-> "idle"]

\* FluentBundle::new
Init ==
    /\ entries = NoEntries
    /\ last = [op |-> "new"]
    /\ calls = [s \in Slots |-> Idle]

AddResource(res) ==
    LET r == add_resource(entries, res)
    IN  /\ entries' = r.entries
        /\ last' = [op |-> "add_resource", pre |-> entries, res |-> res,
                    result |-> r.result]
        /\ UNCHANGED calls

AddFunction(id, func) ==
    LET r == add_function(entries, id, func)
    IN  /\ entries' = r.entries
        /\ last' = [op |-> "add_function", pre |-> entries, id |-> id,
                    func |-> func, result |-> r.result]
        /\ UNCHANGED calls

HasMessage(id) ==
    /\ last' = [op |-> "has_message", pre |-> entries, id |-> id,
                result |-> has_message(entries, id)]
    /\ UNCHANGED <<entries, calls>>

FormatCall(path, args) ==
    /\ last' = [op |-> "format", pre |-> entries, path |-> path, args |-> args,
                result |-> format(entries, path, args)]
    /\ UNCHANGED <<entries, calls>>

CompoundCall(id, args) ==
    /\ last' = [op |-> "compound", pre |-> entries, id |-> id, args |-> args,
                result |-> compound(entries, id, args)]
    /\ UNCHANGED <<entries, calls>>

Next ==
    \/ \E res \in LoadResources : AddResource(res)
    \/ \E id \in FunctionIds, func \in Functions : AddFunction(id, func)
    \/ \E id \in MessageIds : HasMessage(id)
    \/ \E path \in CallPaths, args \in ArgSets : FormatCall(path, args)
    \/ \E id \in MessageIds, args \in ArgSets : CompoundCall(id, args)

Spec == Init /\ [][Next]_vars

(***************************************************************************)
(* format and compound as calls in progress: a call creates its Scope,     *)
(* resolves its fields one pattern element at a time and returns.          *)
(***************************************************************************)
Done(c, result) ==
    [pc |-> "done", op |-> c.op, input |-> c.input, args |-> c.args,
     result |-> result]

Overflow(c) ==
    [pc |-> "overflow", op |-> c.op, input |-> c.input, args |-> c.args]

\* what a call that resolved all its fields returns
call_result(c) ==
    IF c.op = "format"
    THEN SomeResult(c.value.v, c.env.errors)
    ELSE [some |-> TRUE, value |-> c.value, attributes |-> c.attributes,
          errors |-> c.env.errors]

\* the call to resolve_value_for_entry for the next field; the Scope's
\* stack is empty between fields
Enter(c) ==
    IF c.todo = <<>> THEN Done(c, call_result(c))
    ELSE LET f == Head(c.todo)
         IN  [c EXCEPT !.frames = <<[elems |-> f.pat, out |-> ""]>>,
                       !.env.travelled = <<f.node.id>>]

Running(op, input, env, fields) ==
    [pc |-> "run", op |-> op, input |-> input, args |-> env.args,
     todo |-> fields, value |-> Some(""), attributes |-> NoAttributes,
     env |-> env, frames |-> <<>>]

\* the fields compound resolves: the value, when present, then every attribute
compound_fields(message) ==
    (IF message.value.some
     THEN <<[node |-> DisplayableNode(message.id, None), pat |-> message.value.pat]>>
     ELSE <<>>)
    \o [k \in 1..Len(message.attributes) |->
            [node |-> DisplayableNode(message.id, Some(message.attributes[k].id)),
             pat |-> message.attributes[k].value]]

\* format running on the Scope of a call in progress on another thread
BeginFormat_shared(s, path, args) ==
    /\ calls[s].pc = "idle"
    /\ LET others == {o \in Slots \ {s} : calls[o].pc = "run"}
           env == IF others = {} THEN ScopeNew(args)
                  ELSE [ScopeNew(args) EXCEPT
                           !.errors = calls[CHOOSE o \in others : TRUE].env.errors]
           t == format_entry(entries, path)
           c == Running("format", path, env, <<[node |-> t.node, pat |-> t.value]>>)
       IN  calls' = [calls EXCEPT ![s] =
                        IF ~t.some THEN Done(c, NoResult) ELSE Enter(c)]
    /\ UNCHANGED <<entries, last>>

\* format up to its call of resolve_value_for_entry
BeginFormat(s, path, args) ==
    /\ calls[s].pc = "idle"
    /\ LET env == ScopeNew(args)
           t == format_entry(entries, path)
           c == Running("format", path, env, <<[node |-> t.node, pat |-> t.value]>>)
       IN  calls' = [calls EXCEPT ![s] =
                        IF ~t.some THEN Done(c, NoResult) ELSE Enter(c)]
    /\ UNCHANGED <<entries, last>>

\* compound up to its first call of resolve_value_for_entry
BeginCompound(s, message_id, args) ==
    /\ calls[s].pc = "idle"
    /\ LET env == ScopeNew(args)
           message == get_message(entries, message_id)
           c == Running("compound", message_id, env,
                        IF message.some THEN compound_fields(message.v) ELSE <<>>)
       IN  calls' = [calls EXCEPT ![s] =
                        IF ~message.some THEN Done(c, NoMessage)
                        ELSE Enter([c EXCEPT !.value = IF message.v.value.some
                                                       THEN Some("") ELSE None])]
    /\ UNCHANGED <<entries, last>>

\* one element of the pattern being resolved, or the return from a
\* referenced pattern to the one that refers to it
Step(s) ==
    LET c == calls[s]
        n == Len(c.frames)
        top == c.frames[n]
    IN  /\ c.pc = "run"
        /\ n > 0
        /\ ~(n = 1 /\ top.elems = <<>>)
        /\ calls' = [calls EXCEPT ![s] =
             IF top.elems = <<>>
             THEN [c EXCEPT !.frames = [SubSeq(c.frames, 1, n - 1) EXCEPT
                                           ![n - 1].out = @ \o top.out],
                            !.env.travelled = SubSeq(@, 1, n - 1)]
             ELSE LET e == Head(top.elems)
                      t == reference_target(entries, e)
                  IN  IF t.some /\ ~OnStack(e.id, c.env.travelled)
                      THEN IF n >= MaxDepth THEN Overflow(c)
                           ELSE [c EXCEPT !.frames =
                                     Append([c.frames EXCEPT ![n].elems = Tail(@)],
                                            [elems |-> t.v, out |-> ""]),
                                          !.env.travelled = Append(@, e.id)]
                      ELSE LET r == IF t.some
                                    THEN Fallback(cycle_value(c.env, e.id), Cyclic, c.env)
                                    ELSE resolve_leaf(entries, e, c.env)
                           IN  [c EXCEPT !.frames[n].elems = Tail(@),
                                         !.frames[n].out = @ \o r.val,
                                         !.env = r.scope]]
        /\ UNCHANGED <<entries, last>>

\* a field is resolved: format returns it; compound stores it and goes on
\* to the next attribute, or returns
FieldDone(s) ==
    LET c == calls[s]
        f == Head(c.todo)
        out == c.frames[1].out
        stored == IF f.node.attribute.some /\ c.op = "compound"
                  THEN [c EXCEPT !.attributes = (f.node.attribute.v :> out) @@ @]
                  ELSE [c EXCEPT !.value = Some(out)]
    IN  /\ c.pc = "run"
        /\ Len(c.frames) = 1
        /\ c.frames[1].elems = <<>>
        /\ calls' = [calls EXCEPT ![s] =
                        Enter([stored EXCEPT !.todo = Tail(@),
                                             !.frames = <<>>,
                                             !.env.travelled = <<>>])]
        /\ UNCHANGED <<entries, last>>

\* the caller takes the result
Return(s) ==
    /\ calls[s].pc = "done"
    /\ calls' = [calls EXCEPT ![s] = Idle]
    /\ UNCHANGED <<entries, last>>

\* the bundles the calls run on: a function registered or not, then a resource
InitBundles ==
    {add_resource(b, res).entries :
        b \in {NoEntries, add_function(NoEntries, "FN", "F1").entries},
        res \in Resources}

InitCalls ==
    /\ entries \in InitBundles
    /\ last = [op |-> "new"]
    /\ calls = [s \in Slots |-> Idle]

\* one caller
NextFormat ==
    \/ \E path \in Paths, args \in ArgSets : BeginFormat(1, path, args)
    \/ \E id \in MessageIds, args \in ArgSets : BeginCompound(1, id, args)
    \/ Step(1)
    \/ FieldDone(1)
    \/ Return(1)

SpecFormat == InitCalls /\ [][NextFormat]_vars

\* callers on several threads sharing the bundle
NextCalls ==
    \E s \in Slots :
        \/ \E path \in CallPaths, args \in ArgSets : BeginFormat(s, path, args)
        \/ \E id \in MessageIds, args \in ArgSets : BeginCompound(s, id, args)
        \/ Step(s)
        \/ FieldDone(s)
        \/ Return(s)

SpecCalls ==
    /\ InitCalls
    /\ [][NextCalls]_vars
    /\ \A s \in Slots : WF_vars(Step(s)) /\ WF_vars(FieldDone(s))

(***************************************************************************)
(* Properties of the registry (specification Spec).                        *)
(***************************************************************************)
Loading == last.op \in {"add_resource", "add_function"}

\* C3: identifiers are unique per kind: add_function(X) is rejected exactly
\* when a function X is registered, and a resource holding one message (one
\* term) X is rejected exactly when a message (a term) X is registered; so a
\* term or a function may be added under the id of a registered message.
C3_UniquePerKind ==
    /\ last.op = "add_function" =>
          (last.result.ok <=> ~get_function(last.pre, last.id).some)
    /\ (last.op = "add_resource" /\ Len(last.res) = 1
            /\ last.res[1].kind = "message") =>
          (last.result.ok <=> ~get_message(last.pre, last.res[1].id).some)
    /\ (last.op = "add_resource" /\ Len(last.res) = 1
            /\ last.res[1].kind = "term") =>
          (last.result.ok <=> ~get_term(last.pre, last.res[1].id).some)

\* the paths under which the loaded messages are observed
ObservedPaths ==
    {Join(segs) : segs \in {<<"foo">>, <<"bar">>, <<"foo", "title">>, <<"foo", "tip">>}}

\* every message that formatted before the last operation formats the same
FormatsAsBefore ==
    \A path \in ObservedPaths, args \in ArgSets :
        format(last.pre, path, args).some =>
            format(entries, path, args) = format(last.pre, path, args)

\* the message and term entries of a resource body, by position
Entrants(res) == {k \in 1..Len(res) : res[k].kind \in {"message", "term"}}

\* an insertion whose id was registered is answered by an Overriding error
\* with the entrant's kind and id
RejectedWithKindAndId ==
    /\ (last.op = "add_function" /\ last.id \in DOMAIN last.pre) =>
          last.result = Err(<<Overriding("function", last.id)>>)
    /\ last.op = "add_resource" =>
          \A k \in Entrants(last.res) :
              last.res[k].id \in DOMAIN last.pre =>
                  \E j \in 1..Len(last.result.errors) :
                      last.result.errors[j] =
                          Overriding(last.res[k].kind, last.res[k].id)

\* every entry registered before the last operation is stored unchanged
Untouched ==
    \A id \in DOMAIN last.pre : id \in DOMAIN entries /\ entries[id] = last.pre[id]

\* the ids the patterns of a registry refer to
Mentioned(es) ==
    LET patterns(n) ==
            (IF n.value.some THEN {n.value.pat} ELSE {})
            \cup {n.attributes[k].value : k \in 1..Len(n.attributes)}
        refs(pat) ==
            {pat[k].id : k \in {j \in 1..Len(pat) :
                                   pat[j].type \in {"MsgRef", "TermRef", "Call"}}}
    IN  UNION {refs(pat) : pat \in UNION {patterns(es[i].node) : i \in DOMAIN es}}

\* C4 as stated: first writer wins, and after a load every message that was
\* registered formats to the same output as before.
C4_FormatsAsBeforeAnyLoad ==
    Loading => RejectedWithKindAndId /\ Untouched /\ FormatsAsBefore

\* C4: first writer wins: a rejected insertion carries the entrant's kind and
\* id, every stored entry is left untouched, and a registered message formats
\* to the same output as before unless the load registered an id that a
\* registered pattern refers to.
C4_FirstWriterWins ==
    Loading =>
        /\ RejectedWithKindAndId
        /\ Untouched
        /\ (DOMAIN entries \ DOMAIN last.pre) \cap Mentioned(last.pre) = {} =>
              FormatsAsBefore

\* a second function under a registered function's id is rejected, and the
\* message that calls the function still gets the first one
C4_SecondFunctionRejected ==
    /\ last.op = "add_function"
    /\ get_function(last.pre, last.id).some
    /\ last.func # get_function(last.pre, last.id).v
    /\ ~last.result.ok
    /\ "foo" \in DOMAIN entries
    /\ entries["foo"].node = FooAttrs
    /\ format(entries, Join(<<"foo", "tip">>), NoArgs).str
          = "T" \o Invoke(get_function(last.pre, last.id).v)

\* entrant k of a resource is rejected: its id was registered before the
\* load, or an earlier entrant of the same resource has it
Rejected(pre, res, k) ==
    \/ res[k].id \in DOMAIN pre
    \/ \E j \in Entrants(res) : j < k /\ res[j].id = res[k].id

RECURSIVE OverridingErrors(_, _, _)
\* one Overriding error per rejected entrant from position k on, in source order
OverridingErrors(pre, res, k) ==
    IF k > Len(res) THEN <<>>
    ELSE (IF k \in Entrants(res) /\ Rejected(pre, res, k)
          THEN <<Overriding(res[k].kind, res[k].id)>> ELSE <<>>)
         \o OverridingErrors(pre, res, k + 1)

\* C5: add_resource is best-effort: every entrant whose id is not taken is
\* inserted whatever happens to the others, the result is Err exactly when an
\* entrant was rejected, with one Overriding error per rejected entrant in
\* source order, and Ok exactly when every entrant was inserted (none rejected).
C5_BestEffort ==
    last.op = "add_resource" =>
        LET res == last.res
            rejected == {k \in Entrants(res) : Rejected(last.pre, res, k)}
        IN  /\ \A k \in Entrants(res) \ rejected :
                  /\ res[k].id \in DOMAIN entries
                  /\ entries[res[k].id].node = res[k]
                  /\ entries[res[k].id].kind = res[k].kind
            /\ DOMAIN entries = DOMAIN last.pre \cup {res[k].id : k \in Entrants(res)}
            /\ last.result.ok <=> rejected = {}
            /\ last.result.errors = OverridingErrors(last.pre, res, 1)
            /\ \A k \in rejected :
                  res[k].id \in DOMAIN last.pre =>
                      entries[res[k].id] = last.pre[res[k].id]

\* a resource whose first entrant is rejected and whose second is inserted
C5_RejectedThenInserted ==
    /\ last.op = "add_resource"
    /\ Len(last.res) = 2
    /\ Entrants(last.res) = {1, 2}
    /\ last.res[1].id \in DOMAIN last.pre
    /\ last.res[2].id \notin DOMAIN last.pre
    /\ ~last.result.ok
    /\ Len(last.result.errors) = 1
    /\ entries[last.res[2].id].node = last.res[2]

\* C6: has_message(id) holds right after a successful add_resource whose
\* tree holds a message id, and no operation makes has_message(id) false.
C6_AppendOnly ==
    /\ (last.op = "add_resource" /\ last.result.ok) =>
          \A k \in 1..Len(last.res) :
              last.res[k].kind = "message" => has_message(entries, last.res[k].id)
    /\ last.op # "new" =>
          \A id \in DOMAIN last.pre :
              has_message(last.pre, id) => has_message(entries, id)

\* a load onto a bundle that holds a message, under that message's id
C6_LoadOverMessage ==
    /\ Loading
    /\ \E id \in DOMAIN last.pre :
          /\ has_message(last.pre, id)
          /\ has_message(entries, id)
          /\ \/ last.op = "add_function" /\ last.id = id
             \/ last.op = "add_resource"
                /\ \E k \in Entrants(last.res) : last.res[k].id = id

(***************************************************************************)
(* Properties of format and compound (specifications SpecFormat and        *)
(* SpecCalls).                                                             *)
(***************************************************************************)
Dots(path) == {k \in 1..Len(path) : path[k] = "."}
HasDot(path) == Dots(path) # {}
FirstDot(path) == CHOOSE k \in Dots(path) : \A j \in Dots(path) : k <= j
\* the part of a path before its first '.', the whole path when it has none
BeforeDot(path) ==
    ToStr(IF HasDot(path) THEN SubSeq(path, 1, FirstDot(path) - 1) ELSE path)
\* the text after the first '.'
AfterDot(path) == ToStr(SubSeq(path, FirstDot(path) + 1, Len(path)))

\* the cases in which format is to return None
NoneCase(es, path) ==
    LET m == get_message(es, BeforeDot(path))
    IN  \/ ~m.some
        \/ /\ m.some
           /\ HasDot(path)
           /\ \A k \in 1..Len(m.v.attributes) : m.v.attributes[k].id # AfterDot(path)
        \/ /\ m.some
           /\ ~HasDot(path)
           /\ ~m.v.value.some

\* C1: format returns None exactly when the message id before the first '.'
\* is not registered, or the path has a '.' and the message has no attribute
\* named by the text after it, or the path has no '.' and the message has no
\* value; in every other case it resolves and returns Some.
C1_NoneExactly ==
    \A s \in Slots :
        /\ (calls[s].pc = "done" /\ calls[s].op = "format") =>
              (~calls[s].result.some <=> NoneCase(entries, calls[s].input))
        /\ (calls[s].pc \in {"run", "overflow"} /\ calls[s].op = "format") =>
              ~NoneCase(entries, calls[s].input)

\* format("foo") returned None for a registered message that has no value
C1_ValuelessMessage ==
    /\ calls[1].pc = "done"
    /\ calls[1].op = "format"
    /\ calls[1].input = Chars["foo"]
    /\ has_message(entries, "foo")
    /\ ~calls[1].result.some

\* the identifier of the message a call was made for
TopId(c) == IF c.op = "format" THEN BeforeDot(c.input) ELSE c.input

\* format("foo") on `foo = a { foo } b`
CyclicExample ==
    \A s \in Slots :
        (/\ calls[s].pc = "done"
         /\ calls[s].op = "format"
         /\ calls[s].input = Chars["foo"]
         /\ get_message(entries, "foo") = Some(FooCyclic)) =>
            calls[s].result = SomeResult("a foo b", <<Cyclic>>)

\* a step at a reference to an entry that is being resolved does not enter
\* it: it appends the identifier of the call's message and a Cyclic error
CyclicStep ==
    \A s \in Slots :
        LET c == calls[s]
            n == Len(c.frames)
            e == Head(c.frames[n].elems)
        IN  (/\ c.pc = "run"
             /\ calls'[s] # c
             /\ n > 0
             /\ c.frames[n].elems # <<>>
             /\ reference_target(entries, e).some
             /\ \E k \in 1..n : c.env.travelled[k] = e.id) =>
                /\ calls'[s].pc = "run"
                /\ Len(calls'[s].frames) = n
                /\ calls'[s].env.travelled = c.env.travelled
                /\ calls'[s].frames[n].out = c.frames[n].out \o TopId(c)
                /\ calls'[s].env.errors = Append(c.env.errors, Cyclic)

\* C2: a reference to a message or term that is on the currently-resolving
\* stack is not entered: the identifier of the originally requested message
\* is substituted and a Cyclic error appended; format("foo") on
\* `foo = a { foo } b` returns "a foo b" and one Cyclic error.
C2_CycleGuard == [](CyclicExample) /\ [][CyclicStep]_vars

\* format("foo") returned on `foo = a { foo } b`
C2_SelfReference ==
    /\ calls[1].pc = "done"
    /\ calls[1].op = "format"
    /\ calls[1].input = Chars["foo"]
    /\ get_message(entries, "foo") = Some(FooCyclic)
    /\ calls[1].result.some
    /\ calls[1].result.str = "a foo b"

\* a field resolved by itself, in a Scope of its own
Alone(pat, node, args) == resolve_value_for_entry(entries, pat, node, ScopeNew(args))

RECURSIVE AloneErrors(_, _)
\* the errors of the fields of a call, each resolved by itself, in order
AloneErrors(fields, args) ==
    IF fields = <<>> THEN <<>>
    ELSE Alone(Head(fields).pat, Head(fields).node, args).scope.errors
         \o AloneErrors(Tail(fields), args)

\* C7: compound returns None only for an id that is no registered message;
\* otherwise the value is present exactly when the message has one, the
\* mapping holds for each of the N attributes its resolved string, and every
\* field is resolved as it is by itself: the errors of the fields are
\* appended to the list and change no other field.
C7_FieldsIndependent ==
    \A s \in Slots :
        (calls[s].pc = "done" /\ calls[s].op = "compound") =>
            LET m == get_message(entries, calls[s].input)
                r == calls[s].result
                args == calls[s].args
            IN  /\ r.some <=> m.some
                /\ m.some =>
                      /\ r.value.some <=> m.v.value.some
                      /\ m.v.value.some =>
                            r.value.v = Alone(m.v.value.pat,
                                              DisplayableNode(m.v.id, None), args).val
                      /\ \A k \in 1..Len(m.v.attributes) :
                            LET a == m.v.attributes[k]
                            IN  /\ a.id \in DOMAIN r.attributes
                                /\ r.attributes[a.id] =
                                      Alone(a.value,
                                            DisplayableNode(m.v.id, Some(a.id)),
                                            args).val
                      /\ r.errors = AloneErrors(compound_fields(m.v), args)

\* C10: for every attribute a of a registered message m, the string compound
\* returns under a is the string format returns for "m.a".
C10_CompoundAgreesWithFormat ==
    \A s \in Slots :
        (/\ calls[s].pc = "done"
         /\ calls[s].op = "compound"
         /\ calls[s].result.some) =>
            \A a \in DOMAIN calls[s].result.attributes :
                LET f == format(entries,
                                Chars[calls[s].input] \o <<".">> \o Chars[a],
                                calls[s].args)
                IN  f.some /\ f.str = calls[s].result.attributes[a]

\* C8: every format and compound call returns: a call in progress reaches
\* its result, whatever cycles the registry holds, and the stack of the
\* resolution never grows without bound.
C8_Terminates ==
    \A s \in Slots : (calls[s].pc = "run") ~> (calls[s].pc = "done")

\* a call returned after the cycle guard cut a reference
C8_CycleCut ==
    \E s \in Slots :
        /\ calls[s].pc = "done"
        /\ calls[s].result.some
        /\ \E k \in 1..Len(calls[s].result.errors) :
              calls[s].result.errors[k] = Cyclic

\* C9: every call returns what it returns when it runs alone on the bundle,
\* whatever other calls run meanwhile: the Scope of a call is its own.
C9_OwnScope ==
    \A s \in Slots :
        calls[s].pc = "done" =>
            calls[s].result =
                IF calls[s].op = "format"
                THEN format(entries, calls[s].input, calls[s].args)
                ELSE compound(entries, calls[s].input, calls[s].args)

\* a call returned errors while another call, with errors of its own, runs
C9_BothWithErrors ==
    /\ calls[1].pc = "done"
    /\ calls[1].result.some
    /\ calls[1].result.errors # <<>>
    /\ calls[2].pc = "run"
    /\ calls[2].env.errors # <<>>
    /\ calls[2].env.errors # calls[1].result.errors

====
